---------------------------- MODULE Spec2Model ----------------------------
(***************************************************************************)
(* MetaContFn (src/mcf.cpp): the pruning search over the truth tables of   *)
(* functions B^num_inputs -> B^num_outputs.  The table ("image") is a      *)
(* mixed-radix counter; three analyzers (output_ordered,                   *)
(* metastability_containing, input_relevance) each propose a skip target   *)
(* and print_remaining advances the counter to the smallest proposal.      *)
(***************************************************************************)
EXTENDS Integers, Sequences, FiniteSets, TLC

(* ------------------------------ bounds --------------------------------- *)

\* Widths of the searches of Spec: 1..MaxInputs x 1..MaxOutputs.
MaxInputs == 3
MaxOutputs == 5
\* Widths of the searches of SpecSmall, where whole tables are enumerated.
SmallMaxInputs == 2
SmallMaxOutputs == 2
\* Widths and number of calls of SpecAdvance (arbitrary advance calls).
AdvMaxInputs == 2
AdvMaxOutputs == 2
MaxCalls == 3
\* Cap on the driver's step counter; every search of Spec ends below it.
MaxSteps == 300
\* Widths of the searches of SpecLive; with one input more (and MaxSteps one
\* greater) every search still ends below the cap on the step counter.
LiveMaxInputs == 2
LiveMaxOutputs == 4
\* Widths of the enumerations of SpecTables and the cap on their length; every
\* table of these widths is reached below the cap.
TabMaxInputs == 3
TabMaxOutputs == 2
MaxTables == 17000
\* Arguments of main in SpecMain: 0 .. MainMaxArg and MAX_BITS + 1.
MainMaxArg == 2
\* Widths of the searches of SpecOrders (two searches side by side).
OrdMaxInputs == 3
OrdMaxOutputs == 3

(* --------------------------- program constants ------------------------- *)

MAX_BITS == 20

\* the bits of myint ('typedef unsigned int myint')
MYINT_BITS == 32

(* ------------------------------ bit tricks ----------------------------- *)

pin2mask(pin) == 2 ^ pin

RECURSIVE BitAnd(_, _)
BitAnd(a, b) ==
    IF a = 0 \/ b = 0 THEN 0
    ELSE (a % 2) * (b % 2) + 2 * BitAnd(a \div 2, b \div 2)

RECURSIVE BitXor(_, _)
BitXor(a, b) ==
    IF a = 0 /\ b = 0 THEN 0
    ELSE (((a % 2) + (b % 2)) % 2) + 2 * BitXor(a \div 2, b \div 2)

\* i & ~pin2mask(pin)
ClearPin(i, pin) == i - BitAnd(i, pin2mask(pin))

\* __builtin_ctz, never called with 0
RECURSIVE Ctz(_)
Ctz(v) == IF v % 2 = 1 THEN 0 ELSE 1 + Ctz(v \div 2)

SetMax(S) == CHOOSE x \in S : \A y \in S : y <= x
SetMin(S) == CHOOSE x \in S : \A y \in S : x <= y

(* -------------------------------- state -------------------------------- *)

VARIABLES
    num_inputs,       \* function::num_inputs
    num_outputs,      \* function::num_outputs
    image,            \* function::image, [0 .. end_input-1 -> myint]
    pc,               \* position in print_remaining / the caller
    a,                \* index into 'properties' of the next analyzer to query
    last_change,      \* print_remaining's last_change
    next_change,      \* print_remaining's next_change (combined proposal)
    proposed,         \* print_remaining's proposed (last analyzer's answer)
    first_ones,       \* output_ordered::first_ones
    first_relevant,   \* input_relevance::first_relevant, [0 .. num_inputs-1]
    relevant_inputs,  \* input_relevance::relevant_inputs
    steps,            \* print_remaining's steps
    fns,              \* print_remaining's fns
    emitted,          \* the tables written to std::cout, in a set
    violated,         \* names of the assertions that have failed so far
    at,               \* argument of the last advance call
    before,           \* image before the last advance call
    calls,            \* number of advance calls made by the caller of SpecAdvance
    visited,          \* the tables the search has handed to the analyzers
    order,            \* the order of 'properties' of a second, shadow search
    shadow            \* the function, analyzers and counters of the shadow search

vars == <<num_inputs, num_outputs, image, pc, a, last_change, next_change,
          proposed, first_ones, first_relevant, relevant_inputs, steps, fns,
          emitted, violated, at, before, calls, visited, order, shadow>>

end_input == pin2mask(num_inputs)
end_output == pin2mask(num_outputs)

(* ------------------------------ bit_address ---------------------------- *)

\* bit_address(input_pattern, bit): upset
bit_address(input_pattern, bit) == [input_pattern |-> input_pattern, bit |-> bit]

\* bit_address(f): not upset (bit(0): MCF_ALLOW_UNINITIALIZED is not defined)
not_upset(end) == [input_pattern |-> end, bit |-> 0]

\* mutant: on equal places the later proposal's bit is taken
assign_min_last_bit_wins(self, other) ==
    IF other.input_pattern <= self.input_pattern
    THEN [input_pattern |-> other.input_pattern, bit |-> other.bit]
    ELSE self

assign_min(self, other) ==
    IF other.input_pattern < self.input_pattern
    THEN [input_pattern |-> other.input_pattern, bit |-> other.bit]
    ELSE IF other.input_pattern = self.input_pattern
    THEN [self EXCEPT !.bit = IF other.bit < self.bit THEN other.bit ELSE self.bit]
    ELSE self

(* ---------------------------- function::advance ------------------------ *)

\* mutant: the entry right after the place is not reset
reset_after_skips_one(img, place) ==
    [i \in DOMAIN img |-> IF i > place + 1 THEN 0 ELSE img[i]]

\* "Reset digits at less significant places"
reset_after(img, place) ==
    [i \in DOMAIN img |-> IF i > place THEN 0 ELSE img[i]]

\* mutant: a digit that overflows wraps in place and nothing is carried
carry_loop_wraps_in_place(img, i, increment, n_out) ==
    IF i >= 1
    THEN [image |-> [img EXCEPT ![i] = (img[i] + increment) % pin2mask(n_out)],
          ret |-> i]
    ELSE [image |-> img, ret |-> Cardinality(DOMAIN img)]

\* mutant: a sum of exactly 2^n_out is accepted ('<=' for '<')
RECURSIVE carry_loop_accepts_end(_, _, _, _)
carry_loop_accepts_end(img, i, increment, n_out) ==
    IF i >= 1
    THEN LET sum == img[i] + increment
         IN IF sum <= pin2mask(n_out)
            THEN [image |-> [img EXCEPT ![i] = sum], ret |-> i]
            ELSE carry_loop_accepts_end([img EXCEPT ![i] = 0], i - 1, 1, n_out)
    ELSE [image |-> img, ret |-> Cardinality(DOMAIN img)]

\* mutant: the carry loop runs down to index 0 ('i >= 0' for 'i >= 1')
RECURSIVE carry_loop_to_zero(_, _, _, _)
carry_loop_to_zero(img, i, increment, n_out) ==
    IF i >= 0
    THEN LET sum == img[i] + increment
         IN IF sum < pin2mask(n_out)
            THEN [image |-> [img EXCEPT ![i] = sum], ret |-> i]
            ELSE carry_loop_to_zero([img EXCEPT ![i] = 0], i - 1, 1, n_out)
    ELSE [image |-> img, ret |-> Cardinality(DOMAIN img)]

\* "Increment image[at], with carry": the loop 'for (i = at; i >= 1; --i)'.
\* image[i] < 2^MAX_BITS and increment <= 2^MAX_BITS, so the unsigned sum is
\* the integer sum (static_assert sizeof(myint) * 8 >= 1 + MAX_BITS).
RECURSIVE carry_loop(_, _, _, _)
carry_loop(img, i, increment, n_out) ==
    IF i >= 1
    THEN LET sum == img[i] + increment
         IN IF sum < pin2mask(n_out)
            THEN [image |-> [img EXCEPT ![i] = sum], ret |-> i]
            ELSE carry_loop([img EXCEPT ![i] = 0], i - 1, 1, n_out)
    ELSE [image |-> img, ret |-> Cardinality(DOMAIN img)]

\* mutant: advance leaves the table as it is and reports the requested place
advance_stays(img, where, n_out) ==
    [image |-> img, ret |-> where.input_pattern]

\* mutant: advance reports the requested place, wherever the carry stopped
advance_returns_place(img, where, n_out) ==
    LET r == carry_loop(reset_after(img, where.input_pattern),
                        where.input_pattern, pin2mask(where.bit), n_out)
    IN [image |-> r.image,
        ret |-> IF r.ret < Cardinality(DOMAIN img)
                THEN where.input_pattern ELSE r.ret]

advance(img, where, n_out) ==
    carry_loop(reset_after(img, where.input_pattern), where.input_pattern,
               pin2mask(where.bit), n_out)



(* ----------------------- metastability_containing ---------------------- *)

\* (v & (v - 1)) == 0; for v = 0 the unsigned v - 1 is all ones and 0 & it is 0
is_pot_or_zero(v) == IF v = 0 THEN TRUE ELSE BitAnd(v, v - 1) = 0

\* 'change' for input pattern i and input pin in_pin
msc_change(img, i, in_pin) == BitXor(img[i], img[ClearPin(i, in_pin)])

\* the input pins that offend at input pattern i
msc_offending(img, i, n_in) ==
    {in_pin \in 0 .. n_in - 1 : ~is_pot_or_zero(msc_change(img, i, in_pin))}

\* max_tz_plus_one after the inner loop (0: no pin offends)
max_tz_plus_one(img, i, n_in) ==
    IF msc_offending(img, i, n_in) = {} THEN 0
    ELSE SetMax({Ctz(msc_change(img, i, in_pin)) + 1 :
                     in_pin \in msc_offending(img, i, n_in)})

\* the outer loop 'for (i = first_changed; i < f.end_input; ++i)'
RECURSIVE msc_loop(_, _, _)
msc_loop(img, i, n_in) ==
    IF i < pin2mask(n_in)
    THEN IF max_tz_plus_one(img, i, n_in) # 0
         THEN bit_address(i, max_tz_plus_one(img, i, n_in) - 1)
         ELSE msc_loop(img, i + 1, n_in)
    ELSE not_upset(pin2mask(n_in))

\* mutant: the scan starts one place after the first changed place
msc_analyze_after_first(img, first_changed, n_in) ==
    msc_loop(img, first_changed + 1, n_in)

msc_analyze(img, first_changed, n_in) == msc_loop(img, first_changed, n_in)

(* ---------------------------- input_relevance -------------------------- *)

\* mutant: an entry recorded at first_changed itself is kept ('>' for '>=')
RECURSIVE ir_unwind_keeps_changed(_, _, _, _, _)
ir_unwind_keeps_changed(fr, ri, i, first_changed, n_in) ==
    IF i < n_in /\ ri > 0
    THEN IF fr[i] # pin2mask(n_in) /\ fr[i] > first_changed
         THEN ir_unwind_keeps_changed([fr EXCEPT ![i] = pin2mask(n_in)], ri - 1,
                                      i + 1, first_changed, n_in)
         ELSE ir_unwind_keeps_changed(fr, ri, i + 1, first_changed, n_in)
    ELSE [first_relevant |-> fr, relevant_inputs |-> ri]

\* "Partially unwind state":
\* 'for (i = 0; i < first_relevant.size() && relevant_inputs > 0; ++i)'
RECURSIVE ir_unwind(_, _, _, _, _)
ir_unwind(fr, ri, i, first_changed, n_in) ==
    IF i < n_in /\ ri > 0
    THEN IF fr[i] # pin2mask(n_in) /\ fr[i] >= first_changed
         THEN ir_unwind([fr EXCEPT ![i] = pin2mask(n_in)], ri - 1, i + 1,
                        first_changed, n_in)
         ELSE ir_unwind(fr, ri, i + 1, first_changed, n_in)
    ELSE [first_relevant |-> fr, relevant_inputs |-> ri]

\* "Wind state forward", the inner loop 'for (in_pin = 0; in_pin < f.num_inputs;
\* ++in_pin)' at input pattern i, from pin in_pin on.  'done' says that the
\* loop returned "satisfied"; 'bad' collects the assertions that failed.
RECURSIVE ir_pins(_, _, _, _, _, _, _)
ir_pins(img, fr, ri, i, in_pin, n_in, bad) ==
    IF in_pin >= n_in
    THEN [first_relevant |-> fr, relevant_inputs |-> ri, done |-> FALSE, bad |-> bad]
    ELSE IF fr[in_pin] < i
    THEN ir_pins(img, fr, ri, i, in_pin + 1, n_in, bad)
    ELSE LET bad_here ==
                 bad \cup (IF fr[in_pin] = i THEN {"ir_332"} ELSE {})
                     \cup (IF fr[in_pin] = pin2mask(n_in) THEN {} ELSE {"ir_336"})
         IN IF BitAnd(i, pin2mask(in_pin)) = 0
            THEN ir_pins(img, fr, ri, i, in_pin + 1, n_in, bad_here)
            ELSE IF img[i] # img[ClearPin(i, in_pin)]
            THEN \* "Relevant!"
                 IF ri + 1 = n_in
                 THEN [first_relevant |-> [fr EXCEPT ![in_pin] = i],
                       relevant_inputs |-> ri + 1, done |-> TRUE, bad |-> bad_here]
                 ELSE ir_pins(img, [fr EXCEPT ![in_pin] = i], ri + 1, i,
                              in_pin + 1, n_in, bad_here)
            ELSE ir_pins(img, fr, ri, i, in_pin + 1, n_in, bad_here)

\* "Wind state forward", the outer loop 'for (i = first_changed; i <
\* f.end_input; ++i)' and the answer after it
RECURSIVE ir_wind(_, _, _, _, _, _)
ir_wind(img, fr, ri, i, n_in, bad) ==
    IF i >= pin2mask(n_in)
    THEN \* "There's an irrelevant input!"
         [res |-> bit_address(pin2mask(n_in) - 1, 0),
          first_relevant |-> fr, relevant_inputs |-> ri,
          bad |-> bad \cup (IF ri < n_in THEN {} ELSE {"ir_358"})]
    ELSE \* r is the state after the inner loop at i, computed once
         CHOOSE answer \in
             {IF r.done
              THEN [res |-> not_upset(pin2mask(n_in)),
                    first_relevant |-> r.first_relevant,
                    relevant_inputs |-> r.relevant_inputs, bad |-> r.bad]
              ELSE ir_wind(img, r.first_relevant, r.relevant_inputs, i + 1, n_in,
                           r.bad) :
                  r \in {ir_pins(img, fr, ri, i, 0, n_in, bad)}} : TRUE

\* mutant: the forward scan starts one place after the first changed place
ir_analyze_wind_after_first(img, first_changed, fr, ri, n_in) ==
    LET u == ir_unwind(fr, ri, 0, first_changed, n_in)
    IN IF u.relevant_inputs = n_in
       THEN [res |-> not_upset(pin2mask(n_in)),
             first_relevant |-> u.first_relevant,
             relevant_inputs |-> u.relevant_inputs, bad |-> {}]
       ELSE ir_wind(img, u.first_relevant, u.relevant_inputs, first_changed + 1,
                    n_in, {})

ir_analyze(img, first_changed, fr, ri, n_in) ==
    LET u == ir_unwind(fr, ri, 0, first_changed, n_in)
    IN IF u.relevant_inputs = n_in
       THEN [res |-> not_upset(pin2mask(n_in)),
             first_relevant |-> u.first_relevant,
             relevant_inputs |-> u.relevant_inputs, bad |-> {}]
       ELSE ir_wind(img, u.first_relevant, u.relevant_inputs, first_changed,
                    n_in, {})

\* input_relevance(f): first_relevant(f.num_inputs, f.end_input), relevant_inputs = 0
ir_fresh(n_in) == [in_pin \in 0 .. n_in - 1 |-> pin2mask(n_in)]

(* ----------------------------- output_ordered -------------------------- *)

\* mutant: the runway is halved rounding down
can_fit_rounds_down(ones, runway) == ones <= runway \div 2

can_fit(ones, runway) == ones <= (runway + 1) \div 2

\* mutant: an entry recorded at first_changed itself is kept ('>' for '>=')
RECURSIVE ord_unwind_keeps_changed(_, _)
ord_unwind_keeps_changed(fo, first_changed) ==
    IF fo # <<>> /\ fo[Len(fo)] > first_changed
    THEN ord_unwind_keeps_changed(SubSeq(fo, 1, Len(fo) - 1), first_changed)
    ELSE fo

\* "Partially unwind state": 'while (!first_ones.empty())'
RECURSIVE ord_unwind(_, _)
ord_unwind(fo, first_changed) ==
    IF fo # <<>> /\ fo[Len(fo)] >= first_changed
    THEN ord_unwind(SubSeq(fo, 1, Len(fo) - 1), first_changed)
    ELSE fo

\* "Wind state forward": 'for (i = first_changed; i < f.end_input; ++i)'
RECURSIVE ord_wind(_, _, _, _, _, _)
ord_wind(img, fo, i, n_in, n_out, bad) ==
    IF i >= pin2mask(n_in)
    THEN \* "Not possible to reach this."
         [res |-> bit_address(0, 0), first_ones |-> fo, bad |-> bad \cup {"ord_477"}]
    ELSE LET out_pin == Len(fo)
             output == img[i]
             bad_here ==
                 bad \cup (IF can_fit(n_out - Len(fo), pin2mask(n_in) - i)
                           THEN {} ELSE {"ord_444"})
                     \cup (IF Len(fo) < n_out THEN {} ELSE {"ord_445"})
         IN IF BitAnd(output, pin2mask(out_pin) - 1) # 0
            THEN \* "A naughty pin was set."
                 [res |-> bit_address(i, out_pin), first_ones |-> fo, bad |-> bad_here]
            ELSE IF BitAnd(output, pin2mask(out_pin)) # 0
            THEN LET bad_push ==
                         bad_here \cup (IF fo = <<>> \/ fo[Len(fo)] < i
                                        THEN {} ELSE {"ord_454"})
                 IN IF Len(fo) + 1 = n_out
                    THEN \* "Whee! Finished!"
                         [res |-> not_upset(pin2mask(n_in)),
                          first_ones |-> Append(fo, i), bad |-> bad_push]
                    ELSE ord_wind(img, Append(fo, i), i + 1, n_in, n_out, bad_push)
            ELSE IF ~can_fit(n_out - Len(fo), pin2mask(n_in) - (i + 1))
            THEN \* out of runway
                 [res |-> bit_address(i, out_pin), first_ones |-> fo, bad |-> bad_here]
            ELSE ord_wind(img, fo, i + 1, n_in, n_out, bad_here)

\* mutant: the kept state is not unwound at all
ord_analyze_no_unwind(img, first_changed, fo, n_in, n_out) ==
    IF Len(fo) = n_out
    THEN [res |-> not_upset(pin2mask(n_in)), first_ones |-> fo, bad |-> {}]
    ELSE ord_wind(img, fo, first_changed, n_in, n_out, {})

ord_analyze(img, first_changed, fo, n_in, n_out) ==
    LET u == ord_unwind(fo, first_changed)
    IN IF Len(u) = n_out
       THEN [res |-> not_upset(pin2mask(n_in)), first_ones |-> u, bad |-> {}]
       ELSE ord_wind(img, u, first_changed, n_in, n_out, {})

(* ------------------------------- main ---------------------------------- *)

\* the order of main's properties.push_back calls
properties == <<"out_ord", "is_msc", "in_rel">>

\* the shadow search after main's constructions
ShadowFresh(n_in) ==
    [image |-> [i \in 0 .. pin2mask(n_in) - 1 |-> 0],
     last_change |-> 0,
     first_ones |-> <<>>,
     first_relevant |-> ir_fresh(n_in),
     relevant_inputs |-> 0,
     fns |-> 0,
     props |-> {}]

\* the assertions of the constructors that fail: function's 'num_inputs > 0' and
\* 'num_outputs > 0' and, where main goes on to construct the analyzers,
\* output_ordered's 'can_fit(f.num_outputs, f.end_input)'
ctor_asserts(n_in, n_out, where) ==
    (IF n_in > 0 THEN {} ELSE {"fn_106"})
        \cup (IF n_out > 0 THEN {} ELSE {"fn_107"})
        \cup (IF where = "caller" \/ can_fit(n_out, pin2mask(n_in))
              THEN {} ELSE {"ord_414"})

\* The state after main has constructed f, p_msc, p_ir and p_ord (image(end_input)
\* value-initialises every entry to 0).  When an assertion of a constructor
\* fails, a build with assertions has aborted the process and a build with
\* NDEBUG has gone on.
Construct(n_in, n_out, where) ==
    /\ num_inputs = n_in
    /\ num_outputs = n_out
    /\ image = [i \in 0 .. pin2mask(n_in) - 1 |-> 0]
    /\ pc \in (IF ctor_asserts(n_in, n_out, where) = {}
               THEN {where} ELSE {where, "aborted"})
    /\ a = 0
    /\ last_change = 0
    /\ next_change = not_upset(pin2mask(n_in))
    /\ proposed = not_upset(pin2mask(n_in))
    /\ first_ones = <<>>
    /\ first_relevant = ir_fresh(n_in)
    /\ relevant_inputs = 0
    /\ steps = 0
    /\ fns = 0
    /\ emitted = {}
    /\ violated = ctor_asserts(n_in, n_out, where)
    /\ at = not_upset(pin2mask(n_in))
    /\ before = [i \in 0 .. pin2mask(n_in) - 1 |-> 0]
    /\ calls = 0
    /\ visited = {}
    /\ shadow = ShadowFresh(n_in)

Init ==
    /\ \E n_in \in 1 .. MaxInputs, n_out \in 1 .. MaxOutputs :
           Construct(n_in, n_out, "start")
    /\ order = properties

InitSmall ==
    /\ \E n_in \in 1 .. SmallMaxInputs, n_out \in 1 .. SmallMaxOutputs :
           Construct(n_in, n_out, "start")
    /\ order = properties

InitAdvance ==
    /\ \E n_in \in 1 .. AdvMaxInputs, n_out \in 1 .. AdvMaxOutputs :
           Construct(n_in, n_out, "caller")
    /\ order = properties

\* main with its three properties.push_back calls in any order
Orders ==
    {o \in [1 .. Len(properties) -> {properties[k] : k \in DOMAIN properties}] :
        \A j, k \in DOMAIN properties : j # k => o[j] # o[k]}

InitOrders ==
    /\ \E n_in \in 1 .. OrdMaxInputs, n_out \in 1 .. OrdMaxOutputs :
           Construct(n_in, n_out, "start")
    /\ order \in Orders

(* --------------------------- print_remaining --------------------------- *)

\* 'if (output_ordered::can_fit(f.num_outputs, f.end_input))': enter the loop
EnterLoop ==
    /\ pc = "start"
    /\ can_fit(num_outputs, end_input)
    /\ last_change' = 0
    /\ pc' = "step"
    /\ UNCHANGED <<num_inputs, num_outputs, image, a, next_change, proposed,
                   first_ones, first_relevant, relevant_inputs, steps, fns,
                   emitted, violated, at, before, calls, visited,
                   order, shadow>>

\* else: "Impossibly many output pins.  Pruning whole search right away."
PruneAll ==
    /\ pc = "start"
    /\ ~can_fit(num_outputs, end_input)
    /\ pc' = "done"
    /\ UNCHANGED <<num_inputs, num_outputs, image, a, last_change, next_change,
                   proposed, first_ones, first_relevant, relevant_inputs, steps,
                   fns, emitted, violated, at, before, calls, visited,
                   order, shadow>>

\* top of the do-loop: ++steps; bit_address next_change(f); the current table is
\* the one the analyzers of this step are handed
BeginStep ==
    /\ pc = "step"
    /\ steps < MaxSteps
    /\ steps' = steps + 1
    /\ next_change' = not_upset(end_input)
    /\ a' = 0
    /\ pc' = "query"
    /\ visited' = visited \cup {image}
    /\ UNCHANGED <<num_inputs, num_outputs, image, last_change, proposed,
                   first_ones, first_relevant, relevant_inputs, fns, emitted,
                   violated, at, before, calls, order, shadow>>

\* after 'next_change.assign_min(proposed)': the next analyzer, or the decision
AfterQuery == IF a + 1 = Len(properties) THEN "decide" ELSE "query"

\* 'proposed = a->analyze(f, last_change); next_change.assign_min(proposed);'
\* for a = &p_ord
AnalyzeOrd ==
    /\ pc = "query"
    /\ properties[a + 1] = "out_ord"
    /\ LET r == ord_analyze(image, last_change, first_ones, num_inputs, num_outputs)
       IN /\ proposed' = r.res
          /\ first_ones' = r.first_ones
          /\ violated' = violated \cup r.bad
          /\ next_change' = assign_min(next_change, r.res)
    /\ a' = a + 1
    /\ pc' = AfterQuery
    /\ UNCHANGED <<num_inputs, num_outputs, image, last_change, first_relevant,
                   relevant_inputs, steps, fns, emitted, at, before, calls,
                   visited, order, shadow>>

\* the same for a = &p_msc
AnalyzeMsc ==
    /\ pc = "query"
    /\ properties[a + 1] = "is_msc"
    /\ LET r == msc_analyze(image, last_change, num_inputs)
       IN /\ proposed' = r
          /\ next_change' = assign_min(next_change, r)
    /\ a' = a + 1
    /\ pc' = AfterQuery
    /\ UNCHANGED <<num_inputs, num_outputs, image, last_change, first_ones,
                   first_relevant, relevant_inputs, steps, fns, emitted,
                   violated, at, before, calls, visited, order, shadow>>

\* the same for a = &p_ir
AnalyzeIr ==
    /\ pc = "query"
    /\ properties[a + 1] = "in_rel"
    /\ LET r == ir_analyze(image, last_change, first_relevant, relevant_inputs,
                           num_inputs)
       IN /\ proposed' = r.res
          /\ first_relevant' = r.first_relevant
          /\ relevant_inputs' = r.relevant_inputs
          /\ violated' = violated \cup r.bad
          /\ next_change' = assign_min(next_change, r.res)
    /\ a' = a + 1
    /\ pc' = AfterQuery
    /\ UNCHANGED <<num_inputs, num_outputs, image, last_change, first_ones,
                   steps, fns, emitted, at, before, calls, visited,
                   order, shadow>>

\* mutant: after an emission the target is bit 1 of the last place
EmitThenBitOne ==
    /\ pc = "decide"
    /\ next_change.input_pattern = end_input
    /\ emitted' = emitted \cup {image}
    /\ fns' = fns + 1
    /\ next_change' = bit_address(end_input - 1, 1)
    /\ pc' = "advance"
    /\ UNCHANGED <<num_inputs, num_outputs, image, a, last_change, proposed,
                   first_ones, first_relevant, relevant_inputs, steps, violated,
                   at, before, calls, visited, order, shadow>>

\* 'if (next_change.input_pattern == f.end_input)': "Yay!"
Emit ==
    /\ pc = "decide"
    /\ next_change.input_pattern = end_input
    /\ emitted' = emitted \cup {image}
    /\ fns' = fns + 1
    /\ next_change' = bit_address(end_input - 1, 0)
    /\ pc' = "advance"
    /\ UNCHANGED <<num_inputs, num_outputs, image, a, last_change, proposed,
                   first_ones, first_relevant, relevant_inputs, steps, violated,
                   at, before, calls, visited, order, shadow>>

\* otherwise nothing but the watchdog's progress report happens
NoEmit ==
    /\ pc = "decide"
    /\ next_change.input_pattern # end_input
    /\ pc' = "advance"
    /\ UNCHANGED <<num_inputs, num_outputs, image, a, last_change, next_change,
                   proposed, first_ones, first_relevant, relevant_inputs, steps,
                   fns, emitted, violated, at, before, calls, visited,
                   order, shadow>>

\* 'last_change = f.advance(next_change); } while (last_change < f.end_input);'
Advance ==
    /\ pc = "advance"
    /\ LET r == advance(image, next_change, num_outputs)
       IN /\ image' = r.image
          /\ last_change' = r.ret
          /\ pc' = IF r.ret < end_input THEN "step" ELSE "done"
    /\ at' = next_change
    /\ before' = image
    /\ violated' = violated \cup (IF next_change.input_pattern < end_input
                                 THEN {} ELSE {"adv_125"})
    /\ UNCHANGED <<num_inputs, num_outputs, a, next_change, proposed, first_ones,
                   first_relevant, relevant_inputs, steps, fns, emitted, calls,
                   visited, order, shadow>>

Next ==
    \/ EnterLoop
    \/ PruneAll
    \/ BeginStep
    \/ AnalyzeOrd
    \/ AnalyzeMsc
    \/ AnalyzeIr
    \/ Emit
    \/ NoEmit
    \/ Advance

Spec == Init /\ [][Next]_vars

SpecSmall == InitSmall /\ [][Next]_vars

(* ------------------------- main and its arguments --------------------- *)

\* parse_arg: 'if (raw_val > MAX_BITS) throw std::out_of_range("")'
parse_arg(raw_val) ==
    IF raw_val > MAX_BITS THEN "out_of_range" ELSE "ok"

\* main has caught std::out_of_range, printed the usage and returned 1; no
\* function and no analyzer has been constructed
Rejected(arg1, arg2) ==
    /\ num_inputs = arg1
    /\ num_outputs = arg2
    /\ image = <<>>
    /\ pc = "usage"
    /\ a = 0
    /\ last_change = 0
    /\ next_change = not_upset(0)
    /\ proposed = not_upset(0)
    /\ first_ones = <<>>
    /\ first_relevant = <<>>
    /\ relevant_inputs = 0
    /\ steps = 0
    /\ fns = 0
    /\ emitted = {}
    /\ violated = {}
    /\ at = not_upset(0)
    /\ before = <<>>
    /\ calls = 0
    /\ visited = {}
    /\ shadow = <<>>

\* main called with two numeric arguments
InitMain ==
    /\ \E arg1, arg2 \in (0 .. MainMaxArg) \cup {MAX_BITS + 1} :
           IF parse_arg(arg1) = "ok" /\ parse_arg(arg2) = "ok"
           THEN Construct(arg1, arg2, "start")
           ELSE Rejected(arg1, arg2)
    /\ order = properties

SpecMain == InitMain /\ [][Next]_vars

(* ------------------- the search as a running process ------------------- *)

InitLive ==
    /\ \E n_in \in 1 .. LiveMaxInputs, n_out \in 1 .. LiveMaxOutputs :
           Construct(n_in, n_out, "start")
    /\ order = properties

\* main is one sequential thread: as long as a statement of print_remaining is
\* left to execute, the process executes it
SpecLive == InitLive /\ [][Next]_vars /\ WF_vars(Next)

(* ------------- the search with its analyzers in another order ---------- *)

\* 'proposed = a->analyze(f, last_change); next_change.assign_min(proposed);'
\* of the shadow search s for the analyzer called name, with next_change nc;
\* the proposal is kept in props
ShadowQuery(name, s, nc, n_in, n_out) ==
    IF name = "out_ord"
    THEN LET r == ord_analyze(s.image, s.last_change, s.first_ones, n_in, n_out)
         IN [s |-> [s EXCEPT !.first_ones = r.first_ones,
                             !.props = s.props \cup {r.res}],
             nc |-> assign_min(nc, r.res)]
    ELSE IF name = "is_msc"
    THEN LET r == msc_analyze(s.image, s.last_change, n_in)
         IN [s |-> [s EXCEPT !.props = s.props \cup {r}],
             nc |-> assign_min(nc, r)]
    ELSE LET r == ir_analyze(s.image, s.last_change, s.first_relevant,
                             s.relevant_inputs, n_in)
         IN [s |-> [s EXCEPT !.first_relevant = r.first_relevant,
                             !.relevant_inputs = r.relevant_inputs,
                             !.props = s.props \cup {r.res}],
             nc |-> assign_min(nc, r.res)]

\* one iteration of the do-loop of the shadow search s, its properties in the
\* order o
ShadowStep(o, s, n_in, n_out) ==
    LET q1 == ShadowQuery(o[1], [s EXCEPT !.props = {}],
                          not_upset(pin2mask(n_in)), n_in, n_out)
        q2 == ShadowQuery(o[2], q1.s, q1.nc, n_in, n_out)
        q3 == ShadowQuery(o[3], q2.s, q2.nc, n_in, n_out)
        yay == q3.nc.input_pattern = pin2mask(n_in)
        r == advance(q3.s.image,
                     IF yay THEN bit_address(pin2mask(n_in) - 1, 0) ELSE q3.nc,
                     n_out)
    IN [q3.s EXCEPT !.image = r.image,
                    !.last_change = r.ret,
                    !.fns = IF yay THEN @ + 1 ELSE @]

\* 'last_change = f.advance(next_change); } while (...)' of the search, and
\* the whole iteration of the shadow search
AdvanceBoth ==
    /\ pc = "advance"
    /\ LET r == advance(image, next_change, num_outputs)
       IN /\ image' = r.image
          /\ last_change' = r.ret
          /\ pc' = IF r.ret < end_input THEN "step" ELSE "done"
    /\ at' = next_change
    /\ before' = image
    /\ violated' = violated \cup (IF next_change.input_pattern < end_input
                                 THEN {} ELSE {"adv_125"})
    /\ shadow' = ShadowStep(order, shadow, num_inputs, num_outputs)
    /\ UNCHANGED <<num_inputs, num_outputs, a, next_change, proposed, first_ones,
                   first_relevant, relevant_inputs, steps, fns, emitted, calls,
                   visited, order>>

NextOrders ==
    \/ EnterLoop
    \/ PruneAll
    \/ BeginStep
    \/ AnalyzeOrd
    \/ AnalyzeMsc
    \/ AnalyzeIr
    \/ Emit
    \/ NoEmit
    \/ AdvanceBoth

SpecOrders == InitOrders /\ [][NextOrders]_vars

(* ------------------- advance called with any place and bit ------------- *)

\* A caller that holds the function and calls f.advance(bit_address(place, bit))
\* with any place below end_input and any bit up to num_outputs.
AdvanceCall(place, bit) ==
    /\ pc = "caller"
    /\ calls < MaxCalls
    /\ calls' = calls + 1
    /\ LET r == advance(image, bit_address(place, bit), num_outputs)
       IN /\ image' = r.image
          /\ last_change' = r.ret
    /\ at' = bit_address(place, bit)
    /\ before' = image
    /\ UNCHANGED <<num_inputs, num_outputs, pc, a, next_change, proposed,
                   first_ones, first_relevant, relevant_inputs, steps, fns,
                   emitted, violated, visited, order, shadow>>

NextAdvance ==
    \E place \in 0 .. end_input - 1, bit \in 0 .. num_outputs :
        AdvanceCall(place, bit)

SpecAdvance == InitAdvance /\ [][NextAdvance]_vars

\* the search and the arbitrary caller side by side
InitAny == Init \/ InitAdvance

NextAny == Next \/ NextAdvance

SpecAny == InitAny /\ [][NextAny]_vars

(* --------------- every table in turn, by the smallest step ------------- *)

InitTables ==
    /\ \E n_in \in 1 .. TabMaxInputs, n_out \in 1 .. TabMaxOutputs :
           Construct(n_in, n_out, "caller")
    /\ order = properties

\* A caller that counts through the tables with f.advance(bit_address(
\* f.end_input - 1, 0)) until advance reports end_input, and hands each table
\* to a fresh metastability_containing analyzer (first_changed = 0)
BruteStep ==
    /\ pc = "caller"
    /\ calls < MaxTables
    /\ LET r == advance(image, bit_address(end_input - 1, 0), num_outputs)
       IN /\ r.ret < end_input
          /\ image' = r.image
          /\ last_change' = r.ret
          /\ proposed' = msc_analyze(r.image, 0, num_inputs)
    /\ calls' = calls + 1
    /\ at' = bit_address(end_input - 1, 0)
    /\ before' = image
    /\ UNCHANGED <<num_inputs, num_outputs, pc, a, next_change, first_ones,
                   first_relevant, relevant_inputs, steps, fns, emitted,
                   violated, visited, order, shadow>>

SpecTables == InitTables /\ [][BruteStep]_vars

(* ===================== from-scratch checks of a table ================== *)

\* all tables of the given widths that map 0 to 0
Tables(n_in, n_out) ==
    {t \in [0 .. pin2mask(n_in) - 1 -> 0 .. pin2mask(n_out) - 1] : t[0] = 0}

\* a fresh analyzer, first_changed = 0, answers "satisfied"
OrdFromScratch(t, n_in, n_out) ==
    ord_analyze(t, 0, <<>>, n_in, n_out).res.input_pattern = pin2mask(n_in)

MscFromScratch(t, n_in) ==
    msc_analyze(t, 0, n_in).input_pattern = pin2mask(n_in)

IrFromScratch(t, n_in) ==
    ir_analyze(t, 0, ir_fresh(n_in), 0, n_in).res.input_pattern = pin2mask(n_in)

\* the brute-force enumeration: every table, every analyzer from scratch
BruteForce(n_in, n_out) ==
    {t \in Tables(n_in, n_out) :
        /\ OrdFromScratch(t, n_in, n_out)
        /\ MscFromScratch(t, n_in)
        /\ IrFromScratch(t, n_in)}

\* the search ran (was not pruned as a whole) and has ended
SearchDone == pc = "done" /\ can_fit(num_outputs, end_input)

(* ================= the properties, stated on a whole table ============= *)

\* output pin (or input pin) k of the pattern v
Bit(v, k) == (v \div pin2mask(k)) % 2

RECURSIVE PopCount(_)
PopCount(v) == IF v = 0 THEN 0 ELSE (v % 2) + PopCount(v \div 2)

\* the input pattern x with input pin p flipped
FlipPin(x, p) == IF Bit(x, p) = 1 THEN x - pin2mask(p) ELSE x + pin2mask(p)

\* flipping any input pin of any input pattern changes at most one output pin
IsMetastabilityContaining(t, n_in) ==
    \A x \in DOMAIN t : \A p \in 0 .. n_in - 1 :
        PopCount(BitXor(t[x], t[FlipPin(x, p)])) <= 1

\* every input pin changes the output of some input pattern
AllInputsRelevant(t, n_in) ==
    \A p \in 0 .. n_in - 1 : \E x \in DOMAIN t : t[x] # t[FlipPin(x, p)]

\* ONE(k): the lowest input pattern at which output pin k is set (the image
\* length when it never is)
ONE(t, k) ==
    IF \E x \in DOMAIN t : Bit(t[x], k) = 1
    THEN SetMin({x \in DOMAIN t : Bit(t[x], k) = 1})
    ELSE Cardinality(DOMAIN t)

\* pin 0's first activation is no earlier than pin 1's, and so on
ReverseOrdered(t, n_out) ==
    \A k \in 0 .. n_out - 2 : ONE(t, k) >= ONE(t, k + 1)

\* no output pin is constant and no two output pins agree everywhere
OutputsDistinct(t, n_out) ==
    /\ \A k \in 0 .. n_out - 1 :
           Bit(t[0], k) = 0 /\ \E x \in DOMAIN t : Bit(t[x], k) = 1
    /\ \A j, k \in 0 .. n_out - 1 :
           j # k => \E x \in DOMAIN t : Bit(t[x], j) # Bit(t[x], k)

\* the counts of the reference table
ReferenceCount(n_in, n_out) ==
    CASE n_in = 2 /\ n_out = 2 -> 3
      [] n_in = 2 /\ n_out = 3 -> 0
      [] n_in = 3 /\ n_out = 2 -> 195
      [] n_in = 3 /\ n_out = 3 -> 55
      [] n_in = 3 /\ n_out = 4 -> 2
      [] n_in = 3 /\ n_out = 5 -> 0

InReferenceTable(n_in, n_out) ==
    \/ n_in = 2 /\ n_out \in {2, 3}
    \/ n_in = 3 /\ n_out \in {2, 3, 4, 5}

(* ====================== what a skip target jumps over ================== *)

\* the analyzer named 'name' was the last one queried in this step, so that
\* 'proposed' is its answer for the current image and last_change
LastQueried(name) ==
    /\ pc \in {"query", "decide"}
    /\ a >= 1
    /\ properties[a] = name

\* s comes before t in enumeration order (index 0 most significant)
Less(s, t) ==
    \E k \in DOMAIN s : s[k] < t[k] /\ \A j \in 0 .. k - 1 : s[j] = t[j]

\* t agrees with the table T before index i and lies strictly between T and
\* the table r.image that advance produces from T (when advance reports
\* "exhausted", everything after T is jumped over)
JumpedOver(t, T, i, r) ==
    /\ \A j \in 0 .. i - 1 : t[j] = T[j]
    /\ Less(T, t)
    /\ (r.ret = Cardinality(DOMAIN T) \/ Less(t, r.image))

\* the same for a prefix: the values v of digit i such that every table with
\* T's digits before i and v at i, other than T itself, is jumped over or is
\* the table that advance produces
JumpedDigits(T, i, r, n_out) ==
    {v \in 0 .. pin2mask(n_out) - 1 :
        /\ v >= T[i]
        /\ (r.ret # i \/ v < r.image[i])}

\* input pattern x of t is within one output pin of every input pattern that
\* differs from it by clearing one input pin
MscCleanAt(t, x, n_in) ==
    \A p \in 0 .. n_in - 1 :
        Bit(x, p) = 1 => PopCount(BitXor(t[x], t[x - pin2mask(p)])) <= 1

\* some choice of the digits k, k+1, ... of t makes the places from k on clean;
\* with the places before k clean, that table is metastability-containing
RECURSIVE HasMscCompletion(_, _, _, _)
HasMscCompletion(t, k, n_in, n_out) ==
    IF k >= pin2mask(n_in) THEN TRUE
    ELSE \E v \in 0 .. pin2mask(n_out) - 1 :
            /\ MscCleanAt([t EXCEPT ![k] = v], k, n_in)
            /\ HasMscCompletion([t EXCEPT ![k] = v], k + 1, n_in, n_out)

(* ================================ claims =============================== *)

\* C1: when the search has ended, the set of emitted tables is exactly the set
\* of tables (image[0] = 0, digits < 2^num_outputs) that all three analyzers
\* accept when run from scratch: none skipped, none emitted wrongly.
C1_SearchEqualsBruteForce ==
    SearchDone => emitted = BruteForce(num_inputs, num_outputs)

\* C2: when print_remaining has ended, fns is the count of the reference
\* table: (2,2) 3, (2,3) 0, (3,2) 195, (3,3) 55, (3,4) 2, (3,5) 0.
C2_ReferenceCounts ==
    (pc = "done" /\ InReferenceTable(num_inputs, num_outputs))
        => fns = ReferenceCount(num_inputs, num_outputs)

\* C3: every emitted function is metastability-containing.
C3_EmittedMetastabilityContaining ==
    \A t \in emitted : IsMetastabilityContaining(t, num_inputs)

\* a function with two or more output pins, whose output depends on the input,
\* has been emitted
C3_Witness ==
    \E t \in emitted :
        /\ num_outputs >= 2
        /\ \E x \in DOMAIN t : PopCount(t[x]) = 1
        /\ \E x \in DOMAIN t : \E p \in 0 .. num_inputs - 1 :
               PopCount(BitXor(t[x], t[FlipPin(x, p)])) = 1

\* C4: every emitted function has every input pin relevant.
C4_EmittedInputsRelevant ==
    \A t \in emitted : AllInputsRelevant(t, num_inputs)

\* a function of three inputs has been emitted after the analyzer's state was
\* unwound (the table had changed below the last place)
C4_Witness ==
    /\ num_inputs = 3
    /\ pc = "advance"
    /\ image \in emitted
    /\ last_change > 0
    /\ last_change < end_input - 1

\* C5: every emitted function has its output pins ordered by the reverse of
\* their first activation: ONE(0) >= ONE(1) >= ... >= ONE(num_outputs - 1).
C5_EmittedReverseOrdered ==
    \A t \in emitted : ReverseOrdered(t, num_outputs)

\* C6: every emitted function has no constant output pin (each is set on some
\* input pattern and clear on pattern 0) and no two output pins that agree on
\* every input pattern.
C6_EmittedOutputsDistinct ==
    \A t \in emitted : OutputsDistinct(t, num_outputs)

\* a function with two or more output pins has been emitted
C6_Witness == num_outputs >= 2 /\ emitted # {}

\* C7: whenever output_ordered answers a target (i, b) for the current table,
\* every table that agrees with it before i and lies strictly between it and
\* the table advance(i, b) produces is rejected by output_ordered from scratch.
C7_OrdPruningSound ==
    (LastQueried("out_ord") /\ proposed.input_pattern < end_input) =>
        \A t \in Tables(num_inputs, num_outputs) :
            JumpedOver(t, image, proposed.input_pattern,
                       advance(image, proposed, num_outputs))
                => ~OrdFromScratch(t, num_inputs, num_outputs)

\* C8: whenever metastability_containing answers a target (i, b) for the
\* current table, every table that agrees with it before i and lies strictly
\* between it and the table advance(i, b) produces violates
\* metastability-containment.
C8_MscPruningSound ==
    (LastQueried("is_msc") /\ proposed.input_pattern < end_input) =>
        \A v \in JumpedDigits(image, proposed.input_pattern,
                              advance(image, proposed, num_outputs), num_outputs) :
            ~(/\ MscCleanAt([image EXCEPT ![proposed.input_pattern] = v],
                            proposed.input_pattern, num_inputs)
              /\ HasMscCompletion([image EXCEPT ![proposed.input_pattern] = v],
                                  proposed.input_pattern + 1, num_inputs,
                                  num_outputs))

\* C9: whenever an analyzer answers "satisfied" from its incremental state and
\* the driver's last_change, a fresh instance of the same analyzer run on the
\* same table with first_changed = 0 answers "satisfied" too.
C9_SatisfiedAgreesWithScratch ==
    /\ (LastQueried("out_ord") /\ proposed.input_pattern = end_input)
           => OrdFromScratch(image, num_inputs, num_outputs)
    /\ (LastQueried("is_msc") /\ proposed.input_pattern = end_input)
           => MscFromScratch(image, num_inputs)
    /\ (LastQueried("in_rel") /\ proposed.input_pattern = end_input)
           => IrFromScratch(image, num_inputs)

\* output_ordered has answered "satisfied" from its kept state alone: the table
\* changed only after the last recorded first-one, and nothing was rescanned
C9_Witness ==
    /\ LastQueried("out_ord")
    /\ proposed.input_pattern = end_input
    /\ last_change > 0
    /\ Len(first_ones) = num_outputs
    /\ first_ones[Len(first_ones)] < last_change

Advanced == at.input_pattern < end_input

\* the index where the carry of a call advance(place, bit) on table T stops,
\* given the lowest index 'low' that may be incremented; n when it runs out
CarryStop(T, place, bit, n_out, low) ==
    IF place >= low /\ T[place] + pin2mask(bit) < pin2mask(n_out)
    THEN place
    ELSE IF \E j \in low .. place - 1 : T[j] + 1 < pin2mask(n_out)
    THEN SetMax({j \in low .. place - 1 : T[j] + 1 < pin2mask(n_out)})
    ELSE Cardinality(DOMAIN T)

\* the table a call advance(place, bit) on T leaves when the carry stops at r:
\* digits before r kept, digit r incremented, digits after r zero; when the
\* carry ran out, every digit from 'low' on is zero
CarryResult(T, place, bit, r, low) ==
    [k \in DOMAIN T |->
        IF r = Cardinality(DOMAIN T)
        THEN IF k < low THEN T[k] ELSE 0
        ELSE IF k < r THEN T[k]
        ELSE IF k = r THEN T[r] + (IF r = place THEN pin2mask(bit) ELSE 1)
        ELSE 0]

C12_StrictlyIncreasing ==
    /\ (Advanced /\ at.bit < num_outputs /\ last_change < end_input)
           => Less(before, image)
    /\ pc = "step" => \A t \in visited : Less(t, image)

\* the search is about to examine its fourth or later table, reached by an
\* advance with a bit above 0 whose digit wrapped and carried
C12_Witness ==
    /\ pc = "step"
    /\ Cardinality(visited) >= 3
    /\ at.bit > 0
    /\ last_change < at.input_pattern

\* C13: when an advance call returns r < end_input, r is at most the requested
\* place, image[r] differs from its value before the call and every entry at
\* an index below r is unchanged; and the first_changed the search hands to the
\* analyzers is the lowest index at which the table differs from the table of
\* the previous step.
C13_ReturnsFirstChanged ==
    (Advanced /\ last_change < end_input) =>
        /\ last_change <= at.input_pattern
        /\ image[last_change] # before[last_change]
        /\ \A k \in 0 .. last_change - 1 : image[k] = before[k]
        /\ pc \in {"step", "query", "decide"} =>
               last_change = SetMin({k \in DOMAIN image : image[k] # before[k]})

\* an analyzer has been handed a first_changed two or more places above the
\* requested place: the digit there wrapped and the carry went on
C13_Witness ==
    /\ pc = "query"
    /\ a >= 1
    /\ Advanced
    /\ last_change >= 1
    /\ last_change + 2 <= at.input_pattern

(* ======================== combining the proposals ====================== *)

\* the least of a set of bit addresses: smaller place first, then smaller bit
LexMin(S) ==
    CHOOSE x \in S : \A y \in S :
        \/ x.input_pattern < y.input_pattern
        \/ x.input_pattern = y.input_pattern /\ x.bit <= y.bit

\* C14: the target the search advances with is the lexicographic minimum, on
\* (place, bit), of the three analyzers' proposals of the step ((end_input - 1,
\* 0) when that minimum is "satisfied"), and a search that queries the three
\* analyzers in any other order visits the same tables, reports the same
\* last_change and emits as many functions.
C14_OrderIndependent ==
    (pc \in {"step", "done"} /\ Advanced) =>
        /\ LET m == LexMin(shadow.props)
           IN at = IF m.input_pattern = end_input
                   THEN bit_address(end_input - 1, 0) ELSE m
        /\ shadow.image = image
        /\ shadow.last_change = last_change
        /\ shadow.fns = fns

\* in a search whose shadow queries metastability_containing first and
\* output_ordered last, two analyzers proposed the same place with different
\* bits
C14_Witness ==
    /\ pc = "step"
    /\ Advanced
    /\ order[1] = "is_msc"
    /\ order[3] = "out_ord"
    /\ \E x, y \in shadow.props :
           /\ x.input_pattern = y.input_pattern
           /\ x.input_pattern < end_input
           /\ x.bit < y.bit

(* ================================ emitting ============================= *)

\* t is the table that follows s in the enumeration order: one digit is one
\* greater, the digits before it are equal, the digits after it wrapped from
\* the greatest value to 0
IsSuccessor(s, t, n_out) ==
    \E r \in DOMAIN s :
        /\ t[r] = s[r] + 1
        /\ \A k \in DOMAIN s : k < r => t[k] = s[k]
        /\ \A k \in DOMAIN s : k > r => s[k] = pin2mask(n_out) - 1 /\ t[k] = 0

\* C15: a step whose combined result is "satisfied" emits the current table
\* and sets the target to (end_input - 1, bit 0); the advance after an emission
\* has that target and, unless it reports end_input, leaves the immediate
\* successor of the emitted table; and no table is emitted twice: the number of
\* emissions equals the number of distinct emitted tables.
C15_EmitThenSuccessor ==
    /\ [][(pc = "decide" /\ next_change.input_pattern = end_input) =>
              /\ image \notin emitted
              /\ emitted' = emitted \cup {image}
              /\ fns' = fns + 1
              /\ next_change' = bit_address(end_input - 1, 0)
              /\ pc' = "advance"]_vars
    /\ [](fns = Cardinality(emitted))
    /\ []((pc \in {"step", "done"} /\ Advanced /\ before \in emitted) =>
              /\ at = bit_address(end_input - 1, 0)
              /\ pc = "step" => IsSuccessor(before, image, num_outputs))

\* the table after the second or a later emission has been produced, the last
\* digit of the emitted table wrapped and the carry went into the digit before
C15_Witness ==
    /\ pc = "step"
    /\ Advanced
    /\ before \in emitted
    /\ fns >= 2
    /\ last_change = end_input - 2
    /\ image[end_input - 1] = 0
    /\ before[end_input - 1] = end_output - 1

(* =============================== termination =========================== *)

\* C16: every search, run as a process that keeps executing, reaches the end
\* of print_remaining: after finitely many steps advance returns end_input (or
\* the search is pruned at once) and the loop is left; a process that a
\* constructor's assertion aborted has ended before the search.
C16_SearchTerminates == <>(pc \in {"done", "aborted"})

\* a search has left its loop after eight steps, with functions emitted, its
\* last advance having reported end_input
C16_Witness ==
    /\ pc = "done"
    /\ steps >= 8
    /\ fns >= 1
    /\ last_change = end_input

(* ============================== assertions ============================= *)

\* the assertions of the analyzers' scans: output_ordered's two loop
\* assertions, its push assertion and its "FAIL" branch, and input_relevance's
\* three assertions
LoopAsserts == {"ord_444", "ord_445", "ord_454", "ord_477",
                "ir_332", "ir_336", "ir_358"}

\* C17: no assertion of the program fails for any widths of 1 or more: in every
\* step of every search output_ordered's scan ends with "satisfied" or a target
\* (never in the "FAIL" branch), its loop assertions and input_relevance's
\* assertions hold, and no other assertion has failed either.
C17_NoAssertionFails == violated = {}

\* C18: when can_fit(num_outputs, end_input) is false the search loop is
\* skipped: the process goes on to report its result, no analyzer is called,
\* the table is never advanced, nothing is emitted, and the counts are 0
\* functions in 0 steps.
C18_InfeasibleSearchSkipped ==
    ~can_fit(num_outputs, end_input) =>
        /\ pc \in {"start", "done"}
        /\ steps = 0
        /\ fns = 0
        /\ emitted = {}
        /\ visited = {}
        /\ ~Advanced
        /\ \A i \in DOMAIN image : image[i] = 0
        /\ first_ones = <<>>
        /\ relevant_inputs = 0

\* C19: with an argument that is 0 or greater than MAX_BITS the program ends
\* with an error before any step of the search; with both arguments in
\* 1 .. MAX_BITS the function is constructed, its image has 2^num_inputs
\* entries, and they are all 0 as long as advance has not been called.
C19_InvalidWidthsRejected ==
    IF num_inputs \in 1 .. MAX_BITS /\ num_outputs \in 1 .. MAX_BITS
    THEN /\ pc # "usage"
         /\ DOMAIN image = 0 .. pin2mask(num_inputs) - 1
         /\ ~Advanced => \A i \in DOMAIN image : image[i] = 0
    ELSE /\ pc \in {"usage", "aborted"}
         /\ steps = 0

\* the part of C17 that is about the steps of the search: none of the scans'
\* assertions fails and advance is always handed a place below end_input
LoopAssertionsHold == violated \cap (LoopAsserts \cup {"adv_125"}) = {}

(* ============================ range of the digits ====================== *)

\* C20: every image entry is in 0 .. 2^num_outputs - 1 in every state: after
\* construction and after every advance call, made by the search or with any
\* place and any bit.
C20_DigitsInRange ==
    \A i \in DOMAIN image : image[i] >= 0 /\ image[i] < end_output

\* an analyzer of the search is handed a table that advance produced with a
\* bit above 0, the digit at the place having grown by 2^bit without wrapping
C20_Witness ==
    /\ pc = "query"
    /\ Advanced
    /\ at.bit > 0
    /\ last_change = at.input_pattern
    /\ image[last_change] = before[last_change] + pin2mask(at.bit)
    /\ before[last_change] > 0

(* ======================= the analyzers' kept state ===================== *)

\* input pin in_pin is relevant at input pattern i of table t: the pin is set
\* in i and t differs between i and i with the pin cleared
RelevantAt(t, i, in_pin) ==
    /\ BitAnd(i, pin2mask(in_pin)) # 0
    /\ t[i] # t[ClearPin(i, in_pin)]

\* C21: after every call of input_relevance::analyze in the search,
\* relevant_inputs is the number of pins whose first_relevant entry is not
\* end_input, every such entry is the lowest input pattern of the current table
\* at which the pin is relevant, and an answer other than "satisfied" is
\* (end_input - 1, 0).
C21_FirstRelevantExact ==
    LastQueried("in_rel") =>
        /\ relevant_inputs =
               Cardinality({p \in DOMAIN first_relevant :
                               first_relevant[p] # end_input})
        /\ \A p \in DOMAIN first_relevant :
               first_relevant[p] # end_input =>
                   /\ RelevantAt(image, first_relevant[p], p)
                   /\ \A i \in 0 .. first_relevant[p] - 1 :
                          ~RelevantAt(image, i, p)
        /\ proposed.input_pattern # end_input =>
               proposed = bit_address(end_input - 1, 0)

\* input_relevance has answered (end_input - 1, 0) for a table of three inputs
\* that changed after index 0, with one pin's entry kept from an earlier call,
\* one found in this call and one still unknown
C21_Witness ==
    /\ LastQueried("in_rel")
    /\ num_inputs = 3
    /\ last_change > 0
    /\ proposed = bit_address(end_input - 1, 0)
    /\ \E p, q, u \in DOMAIN first_relevant :
           /\ first_relevant[p] < last_change
           /\ first_relevant[q] >= last_change
           /\ first_relevant[q] < end_input
           /\ first_relevant[u] = end_input

\* C22: after every call of output_ordered::analyze in the search, first_ones
\* is strictly increasing, has at most num_outputs entries, and its entry for
\* output pin k (the k-th entry, from 0) is the lowest input pattern i of the
\* current table with bit k of image[i] set.
C22_FirstOnesExact ==
    LastQueried("out_ord") =>
        /\ Len(first_ones) <= num_outputs
        /\ \A j, k \in DOMAIN first_ones : j < k => first_ones[j] < first_ones[k]
        /\ \A k \in DOMAIN first_ones :
               /\ Bit(image[first_ones[k]], k - 1) = 1
               /\ \A i \in 0 .. first_ones[k] - 1 : Bit(image[i], k - 1) = 0

(* ============================ the runway bound ========================= *)

\* the output pins whose first activation in table t (the lowest input pattern
\* with the pin's bit set) lies in the set S of input patterns
ActivatedIn(t, S, n_out) ==
    {k \in 0 .. n_out - 1 :
        \E i \in S \cap DOMAIN t :
            /\ Bit(t[i], k) = 1
            /\ \A j \in 0 .. i - 1 : Bit(t[j], k) = 0}

\* C23: in every table with image[0] = 0 that metastability_containing accepts,
\* the input patterns 2k and 2k + 1 together hold the first activation of at
\* most one output pin, and the last r input patterns hold the first
\* activation of at most ceil(r / 2) output pins, a number that can_fit admits
\* for the runway r; and can_fit(ones, runway) is true exactly when
\* ones <= (runway + 1) / 2, that is when 2 * ones <= runway + 1.
C23_RunwayBound ==
    /\ (pc = "caller" /\ proposed.input_pattern = end_input) =>
           /\ \A k \in 0 .. (end_input \div 2) - 1 :
                  Cardinality(ActivatedIn(image, {2 * k, 2 * k + 1},
                                          num_outputs)) <= 1
           /\ \A r \in 0 .. end_input :
                  LET n == Cardinality(ActivatedIn(image,
                               end_input - r .. end_input - 1, num_outputs))
                  IN /\ 2 * n <= r + 1
                     /\ can_fit(n, r)
    /\ \A ones \in 0 .. num_outputs + 1, runway \in 0 .. end_input :
           can_fit(ones, runway) <=> 2 * ones <= runway + 1

\* a table that metastability_containing accepts and whose last three input
\* patterns hold the first activations of two output pins: the bound is met
C23_Witness ==
    /\ pc = "caller"
    /\ calls > 0
    /\ proposed.input_pattern = end_input
    /\ Cardinality(ActivatedIn(image, end_input - 3 .. end_input - 1,
                               num_outputs)) = 2

(* ========================= the targets of advance ====================== *)

\* the target print_remaining is about to pass to advance lies in the image
\* after index 0 and names an output pin, and the sum advance forms is below
\* 2^(num_outputs + 1)
TargetInRange ==
    pc = "advance" =>
        /\ next_change.input_pattern >= 1
        /\ next_change.input_pattern < end_input
        /\ next_change.bit < num_outputs
        /\ image[next_change.input_pattern] + pin2mask(next_change.bit)
               < pin2mask(num_outputs + 1)
        /\ pin2mask(num_outputs + 1) <= pin2mask(MAX_BITS + 1)

\* C24: every target print_remaining passes to advance has a place from 1 to
\* end_input - 1 and a bit below num_outputs, so advance's assertion holds and
\* image[place] + 2^bit is below 2^(num_outputs + 1), which is at most
\* 2^(MAX_BITS + 1) and fits the MYINT_BITS bits of myint.
C24_TargetsInRange ==
    /\ TargetInRange
    /\ "adv_125" \notin violated
    /\ MAX_BITS + 1 <= MYINT_BITS

\* the same for the searches of widths of 1 or more
TargetsInRangeFromOne ==
    (num_inputs >= 1 /\ num_outputs >= 1) => C24_TargetsInRange

\* advance is about to be called with the highest bit of a digit that already
\* has that bit set: the sum leaves the digit's range and stays below
\* 2^(num_outputs + 1)
HighBitTarget ==
    /\ pc = "advance"
    /\ num_outputs >= 2
    /\ next_change.bit = num_outputs - 1
    /\ next_change.input_pattern < end_input
    /\ image[next_change.input_pattern] + pin2mask(next_change.bit) >= end_output

=============================================================================
